---- MODULE Spec2Model ----
(***************************************************************************)
(* Ratio<T> of rational.hpp: a numerator/denominator pair over an integral *)
(* type T, with the reducing and the tagged non-reducing constructors, the *)
(* arithmetic and comparison operators and the rounding family.            *)
(*                                                                         *)
(* The model follows one caller that holds a Ratio `x` and applies one     *)
(* operation of the public interface per step.  Each step records the      *)
(* operation, its operands and its outcome.  An exception that leaves a    *)
(* noexcept function, and a hardware trap, end the run (halted).           *)
(***************************************************************************)
EXTENDS Integers, FiniteSets

VARIABLES x, op, lhs, rhs, out, halted

vars == <<x, op, lhs, rhs, out, halted>>

(* Bounds of the model *)
MaxIn == 3        \* the caller's small integer arguments are -MaxIn..MaxIn
MaxT == 30        \* products and sums of an operation stay within -MaxT..MaxT
MaxGarbage == 1   \* values an undefined integer division may leave behind
MaxOperand == 2   \* right operands built inline have members in -MaxOperand..MaxOperand

(* Numerals the examples of the repository use (README and example.cpp) *)
ExampleSeven == 7
ExampleTen == 10
ExampleThree == 3

(* Ratio<T>::pi() *)
PiNumer == 6283
PiDenom == 2000

Nums == (-MaxIn..MaxIn) \cup {ExampleSeven, ExampleTen}

Fits(v) == v \in -MaxT..MaxT

(* ------------------------------------------------------------------ *)
(* The integral type T: C++ division truncates toward zero and the     *)
(* remainder takes the sign of the dividend.                           *)
(* ------------------------------------------------------------------ *)
AbsT(a) == IF a < 0 THEN -a ELSE a

CDiv(a, b) ==
    IF (a >= 0) = (b > 0) THEN AbsT(a) \div AbsT(b) ELSE -(AbsT(a) \div AbsT(b))

CMod(a, b) == a - b * CDiv(a, b)

(* the loop of gcd(), entered with both arguments already non-negative *)
RECURSIVE gcdLoop(_, _)
gcdLoop(a, b) ==
    IF b = 0 THEN a
    ELSE LET a1 == CMod(a, b)
         IN  IF a1 = 0 THEN b ELSE gcdLoop(a1, CMod(b, a1))

gcd(a, b) == gcdLoop(AbsT(a), AbsT(b))

(* ------------------------------------------------------------------ *)
(* Outcomes of an operation                                            *)
(* ------------------------------------------------------------------ *)
Ok(r) == [kind |-> "ok", val |-> r]
DivideByZeroException == [kind |-> "DivideByZero"]
Undefined == [kind |-> "UB"]
Trap == [kind |-> "trap"]

(* Ratio(numer, denom, NoReduceTag): the pair as given *)
NoReduce(n, d) == [numer |-> n, denom |-> d]

(* Ratio(u): u/1 through the tagged constructor *)
Ratio1(u) == NoReduce(u, 1)

(* reduce() without the move of the sign to the numerator *)
reduce_NoSignMove(r) ==
    LET g == gcd(r.numer, r.denom)
    IN  IF g = 0 THEN Undefined
        ELSE Ok(NoReduce(CDiv(r.numer, g), CDiv(r.denom, g)))

(* reduce(): divides both members by the gcd (a division by zero when both *)
(* are 0), then moves the sign to the numerator                            *)
reduce(r) ==
    LET g == gcd(r.numer, r.denom)
    IN  IF g = 0 THEN Undefined
        ELSE LET n == CDiv(r.numer, g)
                 d == CDiv(r.denom, g)
             IN  IF d < 0 THEN Ok(NoReduce(0 - n, 0 - d)) ELSE Ok(NoReduce(n, d))

(* Ratio(numer, denom) without the test of the denominator *)
Ratio2_NoZeroCheck(n, d) == reduce(NoReduce(n, d))

(* Ratio(numer, denom): throws on a zero denominator, else reduces *)
Ratio2(n, d) ==
    IF d = 0 THEN DivideByZeroException ELSE reduce(NoReduce(n, d))

make_ratio(n, d) == Ratio2(n, d)

zero == NoReduce(0, 1)
one == NoReduce(1, 1)
pi == NoReduce(PiNumer, PiDenom)

(* ------------------------------------------------------------------ *)
(* Arithmetic operators                                                *)
(* ------------------------------------------------------------------ *)
OpAdd(l, r) ==
    Ratio2((l.numer * r.denom) + (l.denom * r.numer), l.denom * r.denom)

OpSub(l, r) ==
    Ratio2((l.numer * r.denom) - (l.denom * r.numer), l.denom * r.denom)

(* the integral % is evaluated first: its divisor is lhs.denom * rhs.numer *)
OpMod(l, r) ==
    IF l.denom * r.numer = 0 THEN Undefined
    ELSE Ratio2(CMod(l.numer * r.denom, l.denom * r.numer), l.denom * r.denom)

OpMul(l, r) == Ratio2(l.numer * r.numer, l.denom * r.denom)

OpDiv(l, r) == make_ratio(l.numer * r.denom, l.denom * r.numer)

OpNeg(r) == NoReduce(-r.numer, r.denom)

(* the products and sums each operator computes in T *)
AddFits(l, r) ==
    /\ Fits(l.numer * r.denom) /\ Fits(l.denom * r.numer) /\ Fits(l.denom * r.denom)
    /\ Fits((l.numer * r.denom) + (l.denom * r.numer))

SubFits(l, r) ==
    /\ Fits(l.numer * r.denom) /\ Fits(l.denom * r.numer) /\ Fits(l.denom * r.denom)
    /\ Fits((l.numer * r.denom) - (l.denom * r.numer))

ModFits(l, r) ==
    Fits(l.numer * r.denom) /\ Fits(l.denom * r.numer) /\ Fits(l.denom * r.denom)

MulFits(l, r) == Fits(l.numer * r.numer) /\ Fits(l.denom * r.denom)

DivFits(l, r) == Fits(l.numer * r.denom) /\ Fits(l.denom * r.numer)

(* ------------------------------------------------------------------ *)
(* Comparison operators                                                *)
(* ------------------------------------------------------------------ *)
OpEq(l, r) == (l.numer * l.denom) = (r.numer * r.denom)

OpNe(l, r) == ~OpEq(l, r)

(* operator> with >= in place of > *)
OpGt_NonStrict(l, r) == (l.numer * l.denom) >= (r.numer * r.denom)

OpGt(l, r) == (l.numer * l.denom) > (r.numer * r.denom)

OpLt(l, r) == OpGt(r, l)

OpLe(l, r) == ~OpGt(l, r)

OpGe(l, r) == ~OpLt(l, r)

CmpFits(l, r) == Fits(l.numer * l.denom) /\ Fits(r.numer * r.denom)

Comparison(l, r) ==
    [kind |-> "bool", eq |-> OpEq(l, r), ne |-> OpNe(l, r), gt |-> OpGt(l, r),
     lt |-> OpLt(l, r), le |-> OpLe(l, r), ge |-> OpGe(l, r)]

(* ------------------------------------------------------------------ *)
(* Rounding family                                                     *)
(* ------------------------------------------------------------------ *)
trunc(r) ==
    IF r.denom = 0 THEN Undefined ELSE Ok(Ratio1(CDiv(r.numer, r.denom)))

(* fract() with a remainder that is never negative *)
fract_FloorMod(r) ==
    IF r.denom = 0 THEN Undefined ELSE Ok(NoReduce(r.numer % r.denom, r.denom))

fract(r) ==
    IF r.denom = 0 THEN Undefined ELSE Ok(NoReduce(CMod(r.numer, r.denom), r.denom))

(* floor() that truncates whatever the sign *)
floor_Truncating(r) ==
    IF r.denom = 0 THEN Undefined ELSE Ok(Ratio1(CDiv(r.numer, r.denom)))

floor(r) ==
    IF r.denom = 0 THEN Undefined
    ELSE IF OpLt(r, Ratio1(0))
         THEN Ok(Ratio1(CDiv(r.numer - r.denom + 1, r.denom)))
         ELSE Ok(Ratio1(CDiv(r.numer, r.denom)))

ceil(r) ==
    IF r.denom = 0 THEN Undefined
    ELSE IF OpLt(r, Ratio1(0))
         THEN Ok(Ratio1(CDiv(r.numer, r.denom)))
         ELSE Ok(Ratio1(CDiv(r.numer + r.denom - 1, r.denom)))

(* the half_or_larger test with one rule for even and odd denominators *)
HalfOrLarger_NoOddAdjust(fractional) ==
    fractional.numer >= CDiv(fractional.denom, 2)

(* the half_or_larger test of round() on the absolute fractional part *)
HalfOrLarger(fractional) ==
    IF CMod(fractional.denom, 2) = 0
    THEN fractional.numer >= CDiv(fractional.denom, 2)
    ELSE fractional.numer >= CDiv(fractional.denom, 2) + 1

round(r) ==
    IF r.denom = 0 THEN Undefined
    ELSE LET f0 == fract(r).val
             fractional == IF OpLt(f0, zero) THEN OpSub(zero, f0).val ELSE f0
         IN  IF HalfOrLarger(fractional)
             THEN IF OpGt(r, Ratio1(0))
                  THEN OpAdd(trunc(r).val, one)
                  ELSE OpSub(trunc(r).val, one)
             ELSE trunc(r)

abs(r) == IF r.numer > 0 \/ r.numer = 0 THEN r ELSE OpNeg(r)

FloorFits(r) == Fits(r.numer * r.denom) /\ Fits(r.numer - r.denom + 1)

CeilFits(r) == Fits(r.numer * r.denom) /\ Fits(r.numer + r.denom - 1)

RoundFits(r) == Fits(r.numer * r.denom)

(* What an undefined operation can leave to the caller: a trap, or some value *)
Garbage == {NoReduce(n, d) : n \in -MaxGarbage..MaxGarbage, d \in -MaxGarbage..MaxGarbage}

Resolve(o) == IF o.kind = "UB" THEN {Trap} \cup {Ok(g) : g \in Garbage} ELSE {o}

(* The ratios the caller builds inline as right operands: small ones, and *)
(* the 7/3 and 10/3 of the examples                                       *)
OperandNums == -MaxOperand..MaxOperand

Operands ==
    {Ratio2(n, d).val : n \in OperandNums, d \in OperandNums \ {0}}
        \cup {Ratio2(ExampleSeven, ExampleThree).val, Ratio2(ExampleTen, ExampleThree).val}

(* ------------------------------------------------------------------ *)
(* State machine                                                       *)
(* ------------------------------------------------------------------ *)
Init ==
    /\ x = NoReduce(0, 1)
    /\ op = "Ratio()"
    /\ lhs = NoReduce(0, 1)
    /\ rhs = NoReduce(0, 1)
    /\ out = Ok(NoReduce(0, 1))
    /\ halted = FALSE

(* One step: operation `name` on operands l and r ended as o *)
Step(name, l, r, o) ==
    /\ ~halted
    /\ op' = name
    /\ lhs' = l
    /\ rhs' = r
    /\ out' = o
    /\ x' = IF o.kind = "ok" THEN o.val ELSE x
    /\ halted' = (o.kind \in {"DivideByZero", "trap"})

DefaultCtor == Step("Ratio()", zero, zero, Ok(NoReduce(0, 1)))

Ctor1 == \E u \in Nums : Step("Ratio(u)", Ratio1(u), zero, Ok(Ratio1(u)))

Ctor2 ==
    \E n \in Nums, d \in Nums :
        \E o \in Resolve(Ratio2(n, d)) : Step("Ratio(n,d)", NoReduce(n, d), zero, o)

CtorNoReduce ==
    \E n \in Nums, d \in Nums :
        Step("Ratio(n,d,NoReduceTag)", NoReduce(n, d), zero, Ok(NoReduce(n, d)))

ZeroF == Step("zero()", zero, zero, Ok(zero))

OneF == Step("one()", one, zero, Ok(one))

PiF == Step("pi()", pi, zero, Ok(pi))

(* x = x + r, x += r *)
Add ==
    \E r \in Operands \cup {x} :
        /\ AddFits(x, r)
        /\ \E o \in Resolve(OpAdd(x, r)) : Step("+", x, r, o)

Sub ==
    \E r \in Operands \cup {x} :
        /\ SubFits(x, r)
        /\ \E o \in Resolve(OpSub(x, r)) : Step("-", x, r, o)

Mul ==
    \E r \in Operands \cup {x} :
        /\ MulFits(x, r)
        /\ \E o \in Resolve(OpMul(x, r)) : Step("*", x, r, o)

Div ==
    \E r \in Operands \cup {x} :
        /\ DivFits(x, r)
        /\ \E o \in Resolve(OpDiv(x, r)) : Step("/", x, r, o)

Mod ==
    \E r \in Operands \cup {x} :
        /\ ModFits(x, r)
        /\ \E o \in Resolve(OpMod(x, r)) : Step("%", x, r, o)

Neg == Step("neg", x, zero, Ok(OpNeg(x)))

Inc ==
    /\ AddFits(x, Ratio1(1))
    /\ \E o \in Resolve(OpAdd(x, Ratio1(1))) : Step("++", x, Ratio1(1), o)

Dec ==
    /\ SubFits(x, Ratio1(1))
    /\ \E o \in Resolve(OpSub(x, Ratio1(1))) : Step("--", x, Ratio1(1), o)

Reduce == \E o \in Resolve(reduce(x)) : Step("reduce", x, zero, o)

Floor ==
    /\ FloorFits(x)
    /\ \E o \in Resolve(floor(x)) : Step("floor", x, zero, o)

Ceil ==
    /\ CeilFits(x)
    /\ \E o \in Resolve(ceil(x)) : Step("ceil", x, zero, o)

Round ==
    /\ RoundFits(x)
    /\ \E o \in Resolve(round(x)) : Step("round", x, zero, o)

Trunc == \E o \in Resolve(trunc(x)) : Step("trunc", x, zero, o)

Fract == \E o \in Resolve(fract(x)) : Step("fract", x, zero, o)

Abs == Step("abs", x, zero, Ok(abs(x)))

Compare ==
    \E r \in Operands \cup {x} :
        /\ CmpFits(x, r)
        /\ Step("compare", x, r, Comparison(x, r))

Next ==
    \/ DefaultCtor
    \/ Ctor1
    \/ Ctor2
    \/ CtorNoReduce
    \/ ZeroF
    \/ OneF
    \/ PiF
    \/ Add
    \/ Sub
    \/ Mul
    \/ Div
    \/ Mod
    \/ Neg
    \/ Inc
    \/ Dec
    \/ Reduce
    \/ Floor
    \/ Ceil
    \/ Round
    \/ Trunc
    \/ Fract
    \/ Abs
    \/ Compare

Spec == Init /\ [][Next]_vars

(* ------------------------------------------------------------------ *)
(* Exact rational arithmetic, used to state the properties             *)
(* ------------------------------------------------------------------ *)
Divides(k, n) == n % k = 0

Normalized(r) ==
    /\ r.denom > 0
    /\ \A k \in 2..r.denom : ~(Divides(k, r.numer) /\ Divides(k, r.denom))

IsZeroValued(r) == r.numer = 0 /\ r.denom # 0

(* r is the exact fraction n/d *)
IsFraction(r, n, d) == r.numer * d = n * r.denom

(* the integer part of n/d toward zero, d > 0 *)
TruncZ(n, d) == IF n >= 0 THEN n \div d ELSE -((-n) \div d)

Magnitude(n) == IF n >= 0 THEN n ELSE -n

BothNormalized == Normalized(lhs) /\ Normalized(rhs)

(* C1: every Ratio the caller holds after any sequence of public operations  *)
(* has a positive denominator and is in lowest terms (a zero is exactly 0/1) *)
C1_HeldValuesNormalized == Normalized(x)

(* C2: Ratio(n, 0) ends in DivideByZero for every n, a / b ends in           *)
(* DivideByZero for every normalized a and zero-valued b, and neither        *)
(* produces a Ratio (the outcome carries no value)                           *)
C2_ZeroDenominatorRejected ==
    /\ (op = "Ratio(n,d)" /\ lhs.denom = 0) => out = DivideByZeroException
    /\ (op = "/" /\ Normalized(lhs) /\ IsZeroValued(rhs)) => out = DivideByZeroException

C2_Witness ==
    /\ op = "/"
    /\ Normalized(lhs) /\ lhs.numer # 0
    /\ rhs = zero
    /\ out = DivideByZeroException

(* C3: for normalized a/b and c/d, operator== is true exactly when           *)
(* a*d = b*c, that is when numerators and denominators agree, and            *)
(* operator!= is its negation                                                *)
C3_EqualityIsCrossMultiplication ==
    (op = "compare" /\ BothNormalized) =>
        /\ out.eq <=> (lhs.numer * rhs.denom = lhs.denom * rhs.numer)
        /\ out.eq <=> (lhs.numer = rhs.numer /\ lhs.denom = rhs.denom)
        /\ out.ne <=> ~out.eq

(* C4: for normalized a/b and c/d, operator> is true exactly when a*d > b*c, *)
(* and <, <=, >= agree with the exact rational order in the same way         *)
C4_OrderIsExact ==
    (op = "compare" /\ BothNormalized) =>
        /\ out.gt <=> (lhs.numer * rhs.denom > lhs.denom * rhs.numer)
        /\ out.lt <=> (lhs.numer * rhs.denom < lhs.denom * rhs.numer)
        /\ out.le <=> (lhs.numer * rhs.denom <= lhs.denom * rhs.numer)
        /\ out.ge <=> (lhs.numer * rhs.denom >= lhs.denom * rhs.numer)

C6_FloorCeilTrunc ==
    LET n == lhs.numer
        d == lhs.denom
        k == out.val.numer
    IN  /\ (op = "floor" /\ Normalized(lhs)) =>
              /\ out.kind = "ok" /\ out.val.denom = 1
              /\ k * d <= n /\ n < (k + 1) * d
        /\ (op = "ceil" /\ Normalized(lhs)) =>
              /\ out.kind = "ok" /\ out.val.denom = 1
              /\ (k - 1) * d < n /\ n <= k * d
        /\ (op = "trunc" /\ Normalized(lhs)) =>
              /\ out.kind = "ok" /\ out.val.denom = 1
              /\ n >= 0 => (k * d <= n /\ n < (k + 1) * d)
              /\ n < 0 => ((k - 1) * d < n /\ n <= k * d)
        /\ (op = "floor" /\ lhs = NoReduce(-7, 2)) => out = Ok(NoReduce(-4, 1))
        /\ (op = "ceil" /\ lhs = NoReduce(-7, 2)) => out = Ok(NoReduce(-3, 1))
        /\ (op = "trunc" /\ lhs = NoReduce(-7, 2)) => out = Ok(NoReduce(-3, 1))

C6_Witness ==
    /\ op = "floor"
    /\ lhs = NoReduce(-7, 2)
    /\ out = Ok(NoReduce(-4, 1))

(* C7: for normalized n/d, round is half away from zero: when                *)
(* 2*|n mod d| >= d it is trunc + 1 for a positive and trunc - 1 for a       *)
(* negative value, else trunc; round(1/2) = 1, round(-1/2) = -1, and an      *)
(* integer-valued ratio rounds to itself                                     *)
C7_RoundHalfAwayFromZero ==
    LET n == lhs.numer
        d == lhs.denom
        t == TruncZ(n, d)
        rem == n - d * t
    IN  (op = "round" /\ Normalized(lhs)) =>
            /\ out.kind = "ok"
            /\ out.val = NoReduce(IF 2 * Magnitude(rem) >= d
                                  THEN (IF n > 0 THEN t + 1 ELSE t - 1)
                                  ELSE t, 1)
            /\ lhs = NoReduce(1, 2) => out.val = NoReduce(1, 1)
            /\ lhs = NoReduce(-1, 2) => out.val = NoReduce(-1, 1)
            /\ d = 1 => out.val = lhs

C7_Witness ==
    /\ op = "round"
    /\ lhs = NoReduce(-1, 2)
    /\ out = Ok(NoReduce(-1, 1))

(* C8: for normalized a and b, exactly one of a < b, a == b, a > b is true   *)
(* under the library's operators, and a <= b is true exactly when a > b is   *)
(* false                                                                     *)
C8_ComparisonConsistency ==
    (op = "compare" /\ BothNormalized) =>
        /\ out.lt \/ out.eq \/ out.gt
        /\ ~(out.lt /\ out.eq) /\ ~(out.lt /\ out.gt) /\ ~(out.eq /\ out.gt)
        /\ out.le <=> ~out.gt

C8_Witness ==
    /\ op = "compare"
    /\ BothNormalized
    /\ lhs # rhs
    /\ out.eq /\ ~out.lt /\ ~out.gt /\ out.le

(* C9: for normalized a/b, a/b % c/d with c/d zero-valued ends in            *)
(* DivideByZero (no Ratio returned, no integral remainder by zero); for      *)
(* c # 0 it returns (a*d mod b*c)/(b*d) in lowest terms, the remainder       *)
(* taking the sign of the truncating integral %                              *)
C9_ModuloByZeroRejected ==
    LET a == lhs.numer
        b == lhs.denom
        c == rhs.numer
        d == rhs.denom
        q == TruncZ(a * d, Magnitude(b * c))
    IN  /\ (op = "%" /\ Normalized(lhs) /\ IsZeroValued(rhs)) => out = DivideByZeroException
        /\ (op = "%" /\ BothNormalized /\ c # 0) =>
              /\ out.kind = "ok" /\ Normalized(out.val)
              /\ IsFraction(out.val, a * d - Magnitude(b * c) * q, b * d)

(* C10: for normalized n/d, fract is normalized (0/1 for an integer-valued   *)
(* ratio), smaller than 1 in magnitude, zero or of the sign of n/d, and      *)
(* trunc(n/d) + fract(n/d) = n/d exactly                                     *)
C10_FractNormalized ==
    LET n == lhs.numer
        d == lhs.denom
        f == out.val
    IN  (op = "fract" /\ Normalized(lhs)) =>
            /\ out.kind = "ok"
            /\ Normalized(f)
            /\ d = 1 => f = zero
            /\ Magnitude(f.numer) < f.denom
            /\ f.numer = 0 \/ ((f.numer > 0) <=> (n > 0))
            /\ (TruncZ(n, d) * f.denom + f.numer) * d = n * f.denom

C10_Witness ==
    /\ op = "fract"
    /\ lhs = NoReduce(-7, 2)
    /\ out = Ok(NoReduce(-1, 2))

====
